---- MODULE Spec2Model ----
(***************************************************************************)
(* A model of gophycutter (src/main.go): the prompt for a template source, *)
(* the optional clone, the context built from cookiecutter.json, the       *)
(* prompt loop with convertToType, generateFiles (filepath.Walk with       *)
(* renderTemplate and processFile) and runPostGenScripts.                  *)
(*                                                                         *)
(* Text.  A Go string is modelled as a sequence of atoms.  An atom is an   *)
(* indivisible piece of text: a plain chunk ("Demo", "a.txt"), the path    *)
(* separator "/", or one whole template action ("{{.cookiecutter.a}}").    *)
(* No atom is a prefix of another one, so concatenating sequences is       *)
(* string concatenation and comparing sequences atom by atom is comparing  *)
(* the strings byte by byte.                                               *)
(*                                                                         *)
(* Files.  The file system is one map from absolute paths (sequences of    *)
(* segments, a segment being the atoms of one name) to nodes; the template *)
(* tree and the generated tree live in the same map, as they live on the   *)
(* same disk.                                                              *)
(***************************************************************************)
EXTENDS Integers, Sequences, FiniteSets, TLC

configFileName == "cookiecutter.json"
postGenDirName == "post_gen"
gitDirName     == ".git"
Slash          == "/"

\* The largest template tree explored, counted in entries below its root.
MaxEntries == 5

---------------------------------------------------------------------------
(* Strings and paths (package strings, package path/filepath)              *)

Last(s)  == s[Len(s)]
Front(s) == SubSeq(s, 1, Len(s) - 1)

RECURSIVE Flatten(_)
\* The concatenation of a sequence of strings.
Flatten(ss) == IF ss = <<>> THEN <<>> ELSE Head(ss) \o Flatten(Tail(ss))

\* strings.HasPrefix(s, "https://")
HasPrefixHttps(s) ==
    /\ Len(s) >= 3
    /\ s[1] = "https:"
    /\ s[2] = Slash
    /\ s[3] = Slash

RECURSIVE TrimRightSlash(_)
\* strings.TrimRight(s, "/")
TrimRightSlash(s) ==
    IF s # <<>> /\ Last(s) = Slash THEN TrimRightSlash(Front(s)) ELSE s

RECURSIVE SplitSlash(_)
\* strings.Split(s, "/"): the pieces between separators, empty ones kept.
SplitSlash(s) ==
    IF s = <<>> THEN << <<>> >>
    ELSE LET rest == SplitSlash(Tail(s))
         IN  IF Head(s) = Slash
             THEN << <<>> >> \o rest
             ELSE << <<Head(s)>> \o Head(rest) >> \o Tail(rest)

RECURSIVE JoinSlash(_)
\* strings.Join(segs, "/")
JoinSlash(segs) ==
    IF segs = <<>> THEN <<>>
    ELSE IF Len(segs) = 1 THEN segs[1]
    ELSE segs[1] \o <<Slash>> \o JoinSlash(Tail(segs))

IsRooted(s) == s # <<>> /\ s[1] = Slash

RECURSIVE CleanSegs(_, _, _)
\* The element loop of filepath.Clean: empty elements and "." are dropped,
\* ".." removes the element before it (at the root it is dropped, and at
\* the start of a relative path it is kept).
CleanSegs(segs, acc, rooted) ==
    IF segs = <<>> THEN acc
    ELSE LET e == Head(segs)
         IN  IF e = <<>> \/ e = <<".">>
             THEN CleanSegs(Tail(segs), acc, rooted)
             ELSE IF e = <<"..">>
             THEN IF acc # <<>> /\ Last(acc) # <<"..">>
                  THEN CleanSegs(Tail(segs), Front(acc), rooted)
                  ELSE IF rooted
                  THEN CleanSegs(Tail(segs), acc, rooted)
                  ELSE CleanSegs(Tail(segs), Append(acc, e), rooted)
             ELSE CleanSegs(Tail(segs), Append(acc, e), rooted)

\* filepath.Clean
Clean(s) ==
    LET segs == CleanSegs(SplitSlash(s), <<>>, IsRooted(s))
    IN  IF IsRooted(s) THEN <<Slash>> \o JoinSlash(segs)
        ELSE IF segs = <<>> THEN <<".">>
        ELSE JoinSlash(segs)

\* filepath.Join(a, b): empty elements are ignored, the rest is cleaned.
Join(a, b) ==
    IF a = <<>> /\ b = <<>> THEN <<>>
    ELSE IF a = <<>> THEN Clean(b)
    ELSE IF b = <<>> THEN Clean(a)
    ELSE Clean(a \o <<Slash>> \o b)

\* filepath.Base
Base(s) ==
    IF s = <<>> THEN <<".">>
    ELSE LET t == TrimRightSlash(s)
         IN  IF t = <<>> THEN <<Slash>>
             ELSE Last(SplitSlash(t))

\* filepath.Rel(base, target) for a target at or below base, which is what
\* filepath.Walk hands to its callback.
Rel(base, target) ==
    LET b == Clean(base)
        t == Clean(target)
    IN  IF b = t THEN <<".">>
        ELSE IF b = <<".">> THEN t
        ELSE IF b = <<Slash>> THEN Tail(t)
        ELSE SubSeq(t, Len(b) + 2, Len(t))

---------------------------------------------------------------------------
(* Values of the context (what encoding/json decodes into interface{})     *)

\* A decoded JSON value, tagged with its Go type: "string" (string),
\* "number" (float64), "bool" (bool), "other" (map, slice or nil).  s is
\* the text of a string value and, for "other", the text fmt prints.
StrV(s)   == [t |-> "string", s |-> s,    n |-> 0, b |-> FALSE]
NumV(n)   == [t |-> "number", s |-> <<>>, n |-> n, b |-> FALSE]
BoolV(b)  == [t |-> "bool",   s |-> <<>>, n |-> 0, b |-> b]
OtherV(s) == [t |-> "other",  s |-> s,    n |-> 0, b |-> FALSE]

\* The numbers whose text the model knows, with that text.
NumText == [n \in {0, 5, 7} |-> CASE n = 0 -> "0" [] n = 5 -> "5" [] n = 7 -> "7"]

\* fmt.Sscan(value, &v) for a float64 v: the number read, or the zero value
\* v keeps when the text is no number (the error is dropped).
ScanFloat(s) ==
    IF \E n \in DOMAIN NumText : s = <<NumText[n]>>
    THEN CHOOSE n \in DOMAIN NumText : s = <<NumText[n]>>
    ELSE 0

\* fmt.Sscan(value, &v) for a bool v: true for "true" (and "1", "t", ...,
\* none of which is among the inputs), false for "false", and the zero
\* value false when the text is no boolean.
ScanBool(s) == s = <<"true">>

\* convertToType (src/main.go:122).  The int case cannot happen: JSON
\* numbers decode to float64.
convertToType(expectedType, value) ==
    CASE expectedType.t = "string" -> StrV(value)
      [] expectedType.t = "number" -> NumV(ScanFloat(value))
      [] expectedType.t = "bool"   -> BoolV(ScanBool(value))
      [] OTHER                     -> StrV(value)

\* What a template action prints for a value (fmt.Fprint).
PrintValue(v) ==
    CASE v.t = "string" -> v.s
      [] v.t = "number" -> <<NumText[v.n]>>
      [] v.t = "bool"   -> IF v.b THEN <<"true">> ELSE <<"false">>
      [] OTHER          -> v.s

---------------------------------------------------------------------------
(* text/template                                                           *)

\* The template actions of the model.  A "field" action is a chain of
\* field names applied to the data; a "call" action names a function.
ActionTable ==
    ( "{{.cookiecutter.a}}"       :> [kind |-> "field", chain |-> <<"cookiecutter", "a">>, fn |-> ""] )
 @@ ( "{{.cookiecutter.b}}"       :> [kind |-> "field", chain |-> <<"cookiecutter", "b">>, fn |-> ""] )
 @@ ( "{{.cookiecutter.missing}}" :> [kind |-> "field", chain |-> <<"cookiecutter", "missing">>, fn |-> ""] )
 @@ ( "{{.cookiecutter.a.n}}"     :> [kind |-> "field", chain |-> <<"cookiecutter", "a", "n">>, fn |-> ""] )
 @@ ( "{{cookiecutter.b}}"        :> [kind |-> "call",  chain |-> <<"b">>, fn |-> "cookiecutter"] )

IsAction(atom) == atom \in DOMAIN ActionTable

\* The functions every template knows (text/template's builtins).
BuiltinFuncs == {"and", "call", "html", "index", "slice", "js", "len", "not",
                 "or", "print", "printf", "println", "urlquery",
                 "eq", "ge", "gt", "le", "lt", "ne"}

\* template.New("").Parse(text) succeeds: every action is well formed; a
\* call of a function that is not defined is a parse error.
ParseOK(text) ==
    \A i \in 1..Len(text) :
        IsAction(text[i]) /\ ActionTable[text[i]].kind = "call"
            => ActionTable[text[i]].fn \in BuiltinFuncs

\* The result of evaluating a field chain: a value, no value, or an error.
EvVal(v)  == [k |-> "val", v |-> v]
EvNone    == [k |-> "novalue", v |-> StrV(<<>>)]
EvError   == [k |-> "error", v |-> StrV(<<>>)]

\* One field of a chain (text/template's evalField) applied to the result
\* so far.  The data is the map {"cookiecutter": data}; a key a map lacks
\* gives no value (the default missingkey option), a field of no value
\* gives no value, and a field of a string, number or boolean is an error.
EvalField(recv, field, depth, data) ==
    IF recv.k # "val" THEN recv
    ELSE IF depth = 1
         THEN IF field = "cookiecutter" THEN recv ELSE EvNone
    ELSE IF depth = 2
         THEN IF field \in DOMAIN data THEN EvVal(data[field]) ELSE EvNone
    ELSE EvError

RECURSIVE EvalChain(_, _, _, _)
EvalChain(chain, depth, recv, data) ==
    IF depth > Len(chain) THEN recv
    ELSE EvalChain(chain, depth + 1, EvalField(recv, chain[depth], depth, data), data)

\* What one atom of a parsed template writes, or an error.
ExecAtom(atom, data) ==
    IF ~IsAction(atom) THEN [ok |-> TRUE, out |-> <<atom>>]
    ELSE IF ActionTable[atom].kind = "call" THEN [ok |-> FALSE, out |-> <<>>]
    ELSE LET r == EvalChain(ActionTable[atom].chain, 1, EvVal(StrV(<<>>)), data)
         IN  CASE r.k = "val"     -> [ok |-> TRUE, out |-> PrintValue(r.v)]
               [] r.k = "novalue" -> [ok |-> TRUE, out |-> <<"<no value>">>]
               [] OTHER           -> [ok |-> FALSE, out |-> <<>>]

\* tmpl.Execute(&renderedContent, context): the text written, or an error.
Execute(text, data) ==
    [ok  |-> \A i \in 1..Len(text) : ExecAtom(text[i], data).ok,
     out |-> Flatten([i \in 1..Len(text) |-> ExecAtom(text[i], data).out])]

\* Whether rendering text fails, at Parse or at Execute.
RenderFails(text, data) == ~ParseOK(text) \/ ~Execute(text, data).ok

\* renderTemplate (src/main.go:80): the rendered text, or the input itself
\* when the template does not parse or does not execute.
renderTemplate(input, data) ==
    IF RenderFails(input, data) THEN input ELSE Execute(input, data).out

---------------------------------------------------------------------------
(* The file system (package os)                                            *)

\* The working directory of the process, as os.Getwd returns it.
CwdStr == <<Slash, "w">>

\* The absolute path, as a sequence of segments, that the operating system
\* resolves a path string to: a relative one starts at the working directory.
PathOf(s) ==
    LET abs == IF IsRooted(s) THEN s ELSE CwdStr \o <<Slash>> \o s
    IN  CleanSegs(SplitSlash(abs), <<>>, TRUE)

DirNode       == [dir |-> TRUE,  content |-> <<>>]
FileNode(c)   == [dir |-> FALSE, content |-> c]

Prefixes(p)   == {SubSeq(p, 1, i) : i \in 0..Len(p)}
IsDirAt(f, p) == p \in DOMAIN f /\ f[p].dir
IsUnder(p, root) == Len(p) >= Len(root) /\ SubSeq(p, 1, Len(root)) = root

\* os.MkdirAll(p) succeeds: no existing prefix of p, p included, is a file.
MkdirAllOK(f, p) == \A q \in Prefixes(p) : q \in DOMAIN f => f[q].dir

\* The file system after a successful os.MkdirAll(p): p and its missing
\* ancestors are directories, everything else is as before.
MkdirAll(f, p) ==
    [q \in DOMAIN f \cup Prefixes(p) |-> IF q \in DOMAIN f THEN f[q] ELSE DirNode]

\* os.WriteFile(p, ...) can open p for writing: the parent is a directory
\* and p is not one.
WriteFileOK(f, p) ==
    /\ p # <<>>
    /\ IsDirAt(f, Front(p))
    /\ p \in DOMAIN f => ~f[p].dir

\* The file system after a successful os.WriteFile(p, c, 0644): p is
\* created or truncated and holds c.
WriteFile(f, p, c) ==
    [q \in DOMAIN f \cup {p} |-> IF q = p THEN FileNode(c) ELSE f[q]]

Children(f, p) == {q \in DOMAIN f : Len(q) = Len(p) + 1 /\ Front(q) = p}

\* The atoms that occur in names, in the byte order of their text.
AtomOrder ==
    << ".git", "0", "5", "7", "<no value>", "Demo", "HEAD", "README.md",
       "a.txt", "b.txt", "cookiecutter.json", "false", "map[n:x]",
       "post_gen", "s1.go", "s2.go", "srv", "tmpl", "true", "w", "x", "y",
       "z.txt", "{{.cookiecutter.a.n}}", "{{.cookiecutter.a}}",
       "{{.cookiecutter.b}}", "{{.cookiecutter.missing}}",
       "{{cookiecutter.b}}" >>

AtomRank(a) == CHOOSE i \in 1..Len(AtomOrder) : AtomOrder[i] = a

RECURSIVE NameLess(_, _)
\* a < b as strings (the order sort.Strings gives the names of a directory).
NameLess(a, b) ==
    IF b = <<>> THEN FALSE
    ELSE IF a = <<>> THEN TRUE
    ELSE IF Head(a) = Head(b) THEN NameLess(Tail(a), Tail(b))
    ELSE AtomRank(Head(a)) < AtomRank(Head(b))

RECURSIVE SortNames(_)
SortNames(S) ==
    IF S = {} THEN <<>>
    ELSE LET m == CHOOSE x \in S : \A y \in S : x = y \/ NameLess(x, y)
         IN  <<m>> \o SortNames(S \ {m})

\* readDirNames(dir) of filepath.Walk: the names in dir, sorted.
readDirNames(f, p) == SortNames({Last(q) : q \in Children(f, p)})

\* filepath.Match("*.go", name): the name ends in ".go".
MatchGo(name) == name # <<>> /\ Last(name) \in {"s1.go", "s2.go"}

\* filepath.Glob(filepath.Join(postGenDir, "*.go")): the matching entries
\* of postGenDir in sorted order; none when it is not a directory.
Glob(f, postGenDir) ==
    LET p     == PathOf(postGenDir)
        names == IF IsDirAt(f, p) THEN readDirNames(f, p) ELSE <<>>
    IN  SelectSeq([i \in 1..Len(names) |-> Join(postGenDir, names[i])],
                  LAMBDA file : MatchGo(Base(file)))

---------------------------------------------------------------------------
(* The environment: configuration documents, template trees, inputs        *)

DocStrNum   == "{\"a\": \"Demo\", \"b\": 5}"
DocBoolObj  == "{\"a\": true, \"b\": {\"n\": \"x\"}}"
DocFalse    == "{\"a\": false, \"b\": \"\"}"
DocArray    == "[1]"
DocBroken   == "{\"a\": "

\* json.NewDecoder(file).Decode(&obj) on the text of a document: whether it
\* decodes, whether the value is an object, and the object's members.
JsonDecode(text) ==
    CASE text = <<DocStrNum>> ->
           [ok |-> TRUE, object |-> TRUE,
            data |-> [a |-> StrV(<<"Demo">>), b |-> NumV(5)]]
      [] text = <<DocBoolObj>> ->
           [ok |-> TRUE, object |-> TRUE,
            data |-> [a |-> BoolV(TRUE), b |-> OtherV(<<"map[n:x]">>)]]
      [] text = <<DocFalse>> ->
           [ok |-> TRUE, object |-> TRUE,
            data |-> [a |-> BoolV(FALSE), b |-> StrV(<<>>)]]
      [] text = <<DocArray>> ->
           [ok |-> TRUE, object |-> FALSE, data |-> <<>>]
      [] OTHER ->
           [ok |-> FALSE, object |-> FALSE, data |-> <<>>]

Docs == {DocStrNum, DocBoolObj, DocFalse, DocArray, DocBroken}

\* What the user types at a prompt (fmt.Scanln reads one word; an empty
\* line gives the empty string).
Inputs ==
    { <<>>, <<"Demo">>, <<"7">>, <<"true">>, <<"cookiecutter.json">>,
      <<"{{.cookiecutter.b}}">>, <<"x", Slash, "y">> }

\* What the user types as the template source.
Sources ==
    { <<"tmpl">>,
      <<Slash, "srv", Slash, "tmpl">>,
      <<"https:", Slash, Slash, "host", Slash, "tmpl">>,
      <<"https:", Slash, Slash, "host", Slash, "tmpl", Slash>> }

E(rel, dir, content) == [rel |-> rel, dir |-> dir, content |-> content]
D(rel)               == E(rel, TRUE, <<>>)
F(rel, content)      == E(rel, FALSE, content)

RefA     == <<"{{.cookiecutter.a}}">>
CallB    == <<"{{cookiecutter.b}}">>
Cfg      == <<configFileName>>

\* Template trees, each the set of entries below the template root (the
\* configuration document is added to each).
TreeScenario ==
    { D(<<RefA>>), F(<<RefA, <<"README.md">>>>, <<"# ", "{{.cookiecutter.a}}">>) }
TreeContents ==
    { F(<< <<"a.txt">> >>, <<"{{.cookiecutter.missing}}">>),
      F(<< <<"b.txt">> >>, <<"{{.cookiecutter.a.n}}">>),
      F(<< <<"z.txt">> >>, <<"text">>) }
TreeBadName ==
    { F(<< <<"z.txt">> >>, <<"text">>),
      D(<<RefA>>), F(<<RefA, CallB>>, <<"text">>) }
TreeLiteralDir ==
    { F(<< <<"a.txt">> >>, <<"{{.cookiecutter.b}}">>),
      D(<<CallB>>), F(<<CallB, <<"a.txt">>>>, <<"text">>),
      F(<<CallB, <<"{{.cookiecutter.a.n}}">>>>, <<"{{cookiecutter.b}}">>) }
TreeConfigNames ==
    { D(<< <<"Demo">> >>), D(<< <<"Demo">>, Cfg >>),
      F(<< <<"Demo">>, Cfg, <<"a.txt">> >>, <<"text">>),
      F(<<RefA>>, <<"text">>) }
TreeGit ==
    { D(<< <<gitDirName>> >>), F(<< <<gitDirName>>, <<"HEAD">> >>, <<"text">>),
      F(<< <<"Demo">> >>, <<"text">>), F(<<RefA>>, <<"{{.cookiecutter.b}}">>) }
TreeHooks ==
    { D(<< <<postGenDirName>> >>),
      F(<< <<postGenDirName>>, <<"README.md">> >>, <<"text">>),
      F(<< <<postGenDirName>>, <<"s1.go">> >>, <<"package main">>),
      F(<< <<postGenDirName>>, <<"s2.go">> >>, <<"package main">>) }
TreeLarge ==
    { D(<< <<gitDirName>> >>), F(<< <<gitDirName>>, <<"HEAD">> >>, <<"text">>),
      D(<<RefA>>), F(<<RefA, <<"a.txt">>>>, <<"{{.cookiecutter.a}}">>),
      F(<<RefA, <<"{{.cookiecutter.b}}">>>>, <<"text">>) }

Catalogue ==
    { TreeScenario, TreeContents, TreeBadName, TreeLiteralDir,
      TreeConfigNames, TreeGit, TreeHooks, TreeLarge }

Trees == {t \in Catalogue : Cardinality(t) + 1 <= MaxEntries}

\* Where the template lies on the local disk before the run, if anywhere.
Places == { <<>>, <<"tmpl">>, <<Slash, "srv", Slash, "tmpl">> }

WithConfig(tree, doc) == tree \cup { F(<<Cfg>>, <<doc>>) }

\* The file system with the entries placed below loc.
Install(f, loc, entries) ==
    LET base == MkdirAll(f, loc)
        at   == [e \in entries |-> loc \o e.rel]
    IN  [q \in DOMAIN base \cup {at[e] : e \in entries} |->
            IF \E e \in entries : at[e] = q
            THEN LET e == CHOOSE e \in entries : at[e] = q
                 IN  IF e.dir THEN DirNode ELSE FileNode(e.content)
            ELSE base[q]]

EmptyDisk == MkdirAll((<<>> :> DirNode), PathOf(CwdStr))

---------------------------------------------------------------------------
(* The program                                                             *)

VARIABLES
    pc,         \* where main is: "start", "clone", "config", "prompt",
                \* "walk" (inside generateFiles), "hooks", "exit"
    fs,         \* the file system
    remote,     \* the entries of the repository the URL names
    inputDir,   \* main's inputDir
    repoName,   \* main's repoName
    defaults,   \* the decoded configuration document
    data,       \* context["cookiecutter"]
    pending,    \* the keys the prompt loop has not reached yet
    answers,    \* what the user typed for each key prompted so far
    outputDir,  \* main's outputDir
    stack,      \* filepath.Walk: per open directory, the paths still to visit
    visited,    \* one record per call of the walk function, in order
    fsGen,      \* the file system when generateFiles was called
    genResult,  \* "none", or what generateFiles returned: "ok", "err"
    doneMsg,    \* whether "Done!" was printed
    scripts,    \* the files runPostGenScripts' glob listed
    scriptsRun, \* the scripts started, in order, each with its outcome
    exitWhy     \* what ended the run

vars == << pc, fs, remote, inputDir, repoName, defaults, data, pending,
           answers, outputDir, stack, visited, fsGen, genResult, doneMsg,
           scripts, scriptsRun, exitWhy >>

Init ==
    /\ \E tree \in Trees, doc \in Docs, place \in Places :
          /\ remote = WithConfig(tree, doc)
          /\ fs = IF place = <<>> THEN EmptyDisk
                  ELSE Install(EmptyDisk, PathOf(place), WithConfig(tree, doc))
    /\ pc = "start"
    /\ inputDir = <<>>
    /\ repoName = <<>>
    /\ defaults = <<>>
    /\ data = <<>>
    /\ pending = {}
    /\ answers = <<>>
    /\ outputDir = <<>>
    /\ stack = <<>>
    /\ visited = <<>>
    /\ fsGen = EmptyDisk
    /\ genResult = "none"
    /\ doneMsg = FALSE
    /\ scripts = <<>>
    /\ scriptsRun = <<>>
    /\ exitWhy = "running"

Exit(why) == pc' = "exit" /\ exitWhy' = why

\* main, lines 176-183: read the source; a URL gives repoName its base name.
ReadSource ==
    /\ pc = "start"
    /\ \E src \in Sources :
          /\ inputDir' = src
          /\ repoName' = IF HasPrefixHttps(src) THEN Base(TrimRightSlash(src)) ELSE src
          /\ pc' = IF HasPrefixHttps(src) THEN "clone" ELSE "config"
    /\ UNCHANGED << fs, remote, defaults, data, pending, answers, outputDir,
                    stack, visited, fsGen, genResult, doneMsg, scripts,
                    scriptsRun, exitWhy >>

\* main, lines 184-188: git clone <inputDir>, into a new directory of the
\* working directory named after the repository.  git refuses a target that
\* exists; the clone may also fail for reasons of the network.
Clone ==
    /\ pc = "clone"
    /\ LET target == PathOf(Base(TrimRightSlash(inputDir)))
       IN  \E ok \in BOOLEAN :
              IF ok /\ target \notin DOMAIN fs
              THEN /\ fs' = Install(fs, target, remote)
                   /\ pc' = "config"
                   /\ UNCHANGED exitWhy
              ELSE /\ Exit("error cloning repo")
                   /\ UNCHANGED fs
    /\ UNCHANGED << remote, inputDir, repoName, defaults, data, pending,
                    answers, outputDir, stack, visited, fsGen, genResult,
                    doneMsg, scripts, scriptsRun >>

\* generateContext(configFile), lines 19-36 and 190-197.
GenerateContext ==
    /\ pc = "config"
    /\ LET configFile == Join(repoName, <<configFileName>>)
           p          == PathOf(configFile)
           obj        == JsonDecode(fs[p].content)
       IN  IF p \notin DOMAIN fs
           THEN Exit("error reading JSON file") /\ UNCHANGED << defaults, data, pending >>
           ELSE IF fs[p].dir \/ ~obj.ok
           THEN Exit("error decoding JSON file") /\ UNCHANGED << defaults, data, pending >>
           ELSE IF ~obj.object
           THEN Exit("panic: interface conversion") /\ UNCHANGED << defaults, data, pending >>
           ELSE /\ defaults' = obj.data
                /\ data' = obj.data
                /\ pending' = DOMAIN obj.data
                /\ pc' = "prompt"
                /\ UNCHANGED exitWhy
    /\ UNCHANGED << fs, remote, inputDir, repoName, answers, outputDir, stack,
                    visited, fsGen, genResult, doneMsg, scripts, scriptsRun >>

\* One round of the prompt loop, lines 198-202.  Go ranges over a map in no
\* fixed order.
Prompt ==
    /\ pc = "prompt"
    /\ \E key \in pending, val \in Inputs :
          /\ data' = [data EXCEPT ![key] = convertToType(data[key], val)]
          /\ answers' = (key :> val) @@ answers
          /\ pending' = pending \ {key}
    /\ UNCHANGED << pc, fs, remote, inputDir, repoName, defaults, outputDir,
                    stack, visited, fsGen, genResult, doneMsg, scripts,
                    scriptsRun, exitWhy >>

\* main, lines 205-211, and generateFiles up to the walk, lines 39-44:
\* the output directory is computed and created, the walk is set to start
\* at inputDir.
StartGenerate ==
    /\ pc = "prompt"
    /\ pending = {}
    /\ \E getwdOK \in BOOLEAN, mkdirOK \in BOOLEAN :
          LET out == Join(CwdStr, Base(repoName))
          IN  IF ~getwdOK
              THEN /\ Exit("error getting current directory")
                   /\ UNCHANGED << fs, outputDir, stack, fsGen, genResult >>
              ELSE /\ outputDir' = out
                   /\ fsGen' = fs
                   /\ IF mkdirOK /\ MkdirAllOK(fs, PathOf(out))
                      THEN /\ fs' = MkdirAll(fs, PathOf(out))
                           /\ stack' = << <<inputDir>> >>
                           /\ pc' = "walk"
                           /\ UNCHANGED << genResult, exitWhy >>
                      ELSE /\ genResult' = "err"
                           /\ Exit("error creating output directory")
                           /\ UNCHANGED << fs, stack >>
    /\ UNCHANGED << remote, inputDir, repoName, defaults, data, pending,
                    answers, visited, doneMsg, scripts, scriptsRun >>

---------------------------------------------------------------------------
(* generateFiles: the walk function and processFile                        *)

\* The record kept of one call of the walk function.
\*   path      the path the walk passed, rel its path relative to inputDir
\*   act       "access" (the walk reported an error), "skipgit", "mkdir",
\*             "skipcfg" or "file" (processFile was called)
\*   res       "ok", or the step that failed: "access", "mkdir", "read",
\*             "parse", "exec", "write"
\*   pathErr   whether renderTemplate(relativePath) fell back to its input
\*   out1      outputDir joined with the rendered relative path
\*   out       the path handed to os.MkdirAll or os.WriteFile
\*   parentOK  whether the parent of out was a directory at that moment
\*   content   the content processFile read, text the content it rendered
Rec(path, rel, dir, act, res, pathErr, out1, out, parentOK, fault, content, text) ==
    [path |-> path, rel |-> rel, name |-> Base(path), dir |-> dir, act |-> act,
     res |-> res, pathErr |-> pathErr, out1 |-> out1, out |-> out,
     parentOK |-> parentOK, fault |-> fault, content |-> content, text |-> text]

NeverSkipsConfig(name) == FALSE

\* info.Name() == configFileName, line 63.
SkipsConfig(name) == name = <<configFileName>>

WritePathUnrendered(outputPath, context) == outputPath

\* outputPath = renderTemplate(outputPath, context), line 112.
WritePath(outputPath, context) == renderTemplate(outputPath, context)

\* processFile, lines 96-119: what it returns and the file system it leaves.
\* A fault is an error of the operating system the model injects: "read"
\* fails os.ReadFile, "write" fails os.WriteFile before it changes the file.
processFile(inputPath, outputPath, context, f, fault) ==
    LET content == f[PathOf(inputPath)].content
        ex      == Execute(content, context)
        target  == PathOf(WritePath(outputPath, context))
        none    == [res |-> "ok", fs |-> f, out |-> <<>>, parentOK |-> FALSE,
                    content |-> content, text |-> <<>>]
    IN  IF fault = "read" \/ ~(PathOf(inputPath) \in DOMAIN f) \/ f[PathOf(inputPath)].dir
        THEN [none EXCEPT !.res = "read", !.content = <<>>]
        ELSE IF ~ParseOK(content)
        THEN [none EXCEPT !.res = "parse"]
        ELSE IF ~ex.ok
        THEN [none EXCEPT !.res = "exec"]
        ELSE IF fault = "write" \/ ~WriteFileOK(f, target)
        THEN [res |-> "write", fs |-> f, out |-> target,
              parentOK |-> target # <<>> /\ IsDirAt(f, Front(target)),
              content |-> content, text |-> ex.out]
        ELSE [res |-> "ok", fs |-> WriteFile(f, target, ex.out), out |-> target,
              parentOK |-> TRUE, content |-> content, text |-> ex.out]

\* The walk function, lines 44-69, called for path: the record of the
\* call, the file system it leaves and, for a directory the walk goes on
\* to enter, the paths of its entries (read before the call, as
\* filepath.Walk does).  Fault "access" is an error of Lstat or of reading
\* the directory, "write" on a directory fails os.MkdirAll.
Visit(path, context, inDir, outDir, f, fault) ==
    LET p          == PathOf(path)
        isDir      == f[p].dir
        names      == readDirNames(f, p)
        rel        == Rel(inDir, path)
        outputPath == Join(outDir, renderTemplate(rel, context))
        o1         == PathOf(outputPath)
        pathErr    == RenderFails(rel, context)
        r          == processFile(path, outputPath, context, f, fault)
    IN  IF p \notin DOMAIN f \/ fault = "access"
        THEN [rec |-> Rec(path, <<>>, FALSE, "access", "access", FALSE, <<>>, <<>>, FALSE, fault, <<>>, <<>>),
              fs |-> f, enter |-> <<>>]
        ELSE IF isDir /\ Base(path) = <<gitDirName>>
        THEN [rec |-> Rec(path, <<>>, TRUE, "skipgit", "ok", FALSE, <<>>, <<>>, FALSE, fault, <<>>, <<>>),
              fs |-> f, enter |-> <<>>]
        ELSE IF isDir
        THEN IF fault # "write" /\ MkdirAllOK(f, o1)
             THEN [rec |-> Rec(path, rel, TRUE, "mkdir", "ok", pathErr, o1, o1, TRUE, fault, <<>>, <<>>),
                   fs |-> MkdirAll(f, o1),
                   enter |-> [i \in 1..Len(names) |-> Join(path, names[i])]]
             ELSE [rec |-> Rec(path, rel, TRUE, "mkdir", "mkdir", pathErr, o1, o1, FALSE, fault, <<>>, <<>>),
                   fs |-> f, enter |-> <<>>]
        ELSE IF SkipsConfig(Base(path))
        THEN [rec |-> Rec(path, rel, FALSE, "skipcfg", "ok", pathErr, o1, <<>>, FALSE, fault, <<>>, <<>>),
              fs |-> f, enter |-> <<>>]
        ELSE [rec |-> Rec(path, rel, FALSE, "file", r.res, pathErr, o1, r.out, r.parentOK, fault, r.content, r.text),
              fs |-> r.fs, enter |-> <<>>]

\* The faults that can be injected when the walk reaches path.
FaultsAt(f, path) ==
    IF PathOf(path) \notin DOMAIN f THEN {"none"}
    ELSE IF f[PathOf(path)].dir THEN {"none", "access", "write"}
    ELSE {"none", "access", "read", "write"}

RECURSIVE Unwind(_)
\* The walk leaves the directories it has finished.
Unwind(st) ==
    IF st # <<>> /\ Head(st) = <<>> THEN Unwind(Tail(st)) ELSE st

WalkGoesOnAlways(res) == TRUE

\* The walk goes on after a call of the walk function that returned nil
\* (or SkipDir); any other error ends it, lines 45-47 and 60-66.
WalkGoesOn(res) == res = "ok"

\* One call of the walk function by filepath.Walk, and what the walk does
\* with its result; when it returned an error, generateFiles returns it
\* (lines 71-73) and main returns (lines 212-215).
WalkStep ==
    /\ pc = "walk"
    /\ stack # <<>>
    /\ LET path == Head(Head(stack))
           rest == << Tail(Head(stack)) >> \o Tail(stack)
       IN  \E fault \in FaultsAt(fs, path) :
              LET v == Visit(path, data, inputDir, outputDir, fs, fault)
              IN  /\ visited' = Append(visited, v.rec)
                  /\ fs' = v.fs
                  /\ IF WalkGoesOn(v.rec.res)
                     THEN /\ stack' = Unwind(<< v.enter >> \o rest)
                          /\ UNCHANGED << pc, genResult, exitWhy >>
                     ELSE /\ stack' = rest
                          /\ genResult' = "err"
                          /\ Exit("error generating files")
    /\ UNCHANGED << remote, inputDir, repoName, defaults, data, pending,
                    answers, outputDir, fsGen, doneMsg, scripts, scriptsRun >>

\* The walk is over: generateFiles prints "Done!" and returns nil (lines
\* 75-76); runPostGenScripts looks for the post_gen directory of the output
\* and lists its scripts (lines 152-163).
WalkDone ==
    /\ pc = "walk"
    /\ stack = <<>>
    /\ doneMsg' = TRUE
    /\ genResult' = "ok"
    /\ LET postGenDir == Join(outputDir, <<postGenDirName>>)
       IN  scripts' = IF PathOf(postGenDir) \in DOMAIN fs
                      THEN Glob(fs, postGenDir)
                      ELSE <<>>
    /\ pc' = "hooks"
    /\ UNCHANGED << fs, remote, inputDir, repoName, defaults, data, pending,
                    answers, outputDir, stack, visited, fsGen, scriptsRun,
                    exitWhy >>

ScriptLoopGoesOnAlways(ok) == TRUE

\* The loop over the scripts goes on after a script that exited with
\* success and returns at the first that did not, lines 168-170.
ScriptLoopGoesOn(ok) == ok

\* One round of the loop of runPostGenScripts, lines 164-171: go run <file>.
RunScript ==
    /\ pc = "hooks"
    /\ Len(scriptsRun) < Len(scripts)
    /\ \E ok \in BOOLEAN :
          /\ scriptsRun' = Append(scriptsRun, [file |-> scripts[Len(scriptsRun) + 1], ok |-> ok])
          /\ IF ScriptLoopGoesOn(ok)
             THEN UNCHANGED << pc, exitWhy >>
             ELSE Exit("error running post-gen scripts")
    /\ UNCHANGED << fs, remote, inputDir, repoName, defaults, data, pending,
                    answers, outputDir, stack, visited, fsGen, genResult,
                    doneMsg, scripts >>

\* runPostGenScripts returns nil and main ends, lines 172 and 216-221.
HooksDone ==
    /\ pc = "hooks"
    /\ Len(scriptsRun) = Len(scripts)
    /\ Exit("finished")
    /\ UNCHANGED << fs, remote, inputDir, repoName, defaults, data, pending,
                    answers, outputDir, stack, visited, fsGen, genResult,
                    doneMsg, scripts, scriptsRun >>

Next ==
    \/ ReadSource
    \/ Clone
    \/ GenerateContext
    \/ Prompt
    \/ StartGenerate
    \/ WalkStep
    \/ WalkDone
    \/ RunScript
    \/ HooksDone

Spec == Init /\ [][Next]_vars

---------------------------------------------------------------------------
(* Properties                                                              *)

Visits       == 1..Len(visited)
OutRoot      == PathOf(outputDir)
InRoot       == PathOf(inputDir)
GenStarted   == outputDir # <<>>
\* The calls of the walk function that made or wrote an output entry.
Produced(i)  == visited[i].act \in {"mkdir", "file"} /\ visited[i].res = "ok"
\* The entries the file system has gained since generateFiles was called.
Added        == DOMAIN fs \ DOMAIN fsGen
\* The path of an entry's output after one lenient render of its relative
\* path, and after the second render processFile applies to a file's path.
OnceRendered(i)  == PathOf(Join(outputDir, renderTemplate(visited[i].rel, data)))
TwiceRendered(i) ==
    PathOf(renderTemplate(Join(outputDir, renderTemplate(visited[i].rel, data)), data))
Disjoint(p, q) == ~IsUnder(p, q) /\ ~IsUnder(q, p)
\* A run that writes its output beside the template, not into it, and in
\* which every prompt was answered with some text.
Separate     ==
    /\ GenStarted
    /\ Disjoint(OutRoot, InRoot)
    /\ \A key \in DOMAIN answers : answers[key] # <<>>

\* C1: for every key the user answered with empty input, the value stored
\* in the context equals the default value of the configuration document,
\* with its type.
C1_EmptyInputKeepsDefault ==
    \A key \in DOMAIN answers :
        answers[key] = <<>> => data[key] = defaults[key]

\* C2 (as claimed): no entry of the output tree that the run made or wrote
\* has the basename cookiecutter.json, whatever the input entry it comes
\* from.  Stated for the runs whose output root lies apart from the input
\* root and whose prompts were all answered, where it already fails.
C2_NoOutputNamedConfig ==
    Separate =>
        \A p \in DOMAIN fs :
            ( /\ IsUnder(p, OutRoot)
              /\ p # OutRoot
              /\ \/ p \in Added
                 \/ \E i \in Visits : Produced(i) /\ visited[i].out = p )
            => Last(p) # <<configFileName>>

\* C2 (amended): a call of the walk function for a file whose own name is
\* cookiecutter.json skips it: the file is not handed to processFile and
\* the file system is left as it was.
C2_ConfigFileIsSkipped ==
    [][ ( /\ Len(visited') = Len(visited) + 1
          /\ ~Last(visited').dir
          /\ Last(visited').name = <<configFileName>>
          /\ Last(visited').act # "access" )
        => ( /\ Last(visited').act = "skipcfg"
             /\ fs' = fs
             /\ pc' = "walk" ) ]_vars

C2_Witness ==
    /\ Separate
    /\ genResult = "ok"
    /\ \E i \in Visits : visited[i].act = "skipcfg"
    /\ \E i \in Visits : visited[i].act = "file" /\ visited[i].res = "ok"

\* C3 (as claimed): after a successful generateFiles every non-skipped
\* entry has its output at the output root joined with the once-rendered
\* relative path, distinct entries have distinct outputs, and the output
\* tree has gained nothing else.  Stated for the runs whose output root
\* lies apart from the input root and whose prompts were all answered, where
\* it already fails.
C3_OneOutputPerEntryOnceRendered ==
    Separate /\ genResult = "ok" =>
        /\ \A i \in Visits :
              Produced(i) =>
                  /\ visited[i].out = OnceRendered(i)
                  /\ visited[i].out \in DOMAIN fs
                  /\ fs[visited[i].out].dir = visited[i].dir
        /\ \A i, j \in Visits :
              Produced(i) /\ Produced(j) /\ i # j => visited[i].out # visited[j].out
        /\ \A p \in Added : \E i \in Visits : Produced(i) /\ visited[i].out = p

\* C3 (amended): after a successful generateFiles every non-skipped
\* directory is a directory at the output root joined with its once-rendered
\* relative path, every non-skipped file is a file at the path that
\* rendering that joined path a second time gives, and every entry the run
\* added is one of these or an ancestor of one.  Several entries may share
\* one output.
C3_OutputsAtRenderedPaths ==
    genResult = "ok" =>
        /\ \A i \in Visits :
              /\ visited[i].res = "ok"
              /\ visited[i].act = "mkdir" =>
                    /\ visited[i].out = OnceRendered(i)
                    /\ IsDirAt(fs, visited[i].out)
              /\ visited[i].act = "file" =>
                    /\ visited[i].out = TwiceRendered(i)
                    /\ visited[i].out \in DOMAIN fs
                    /\ ~fs[visited[i].out].dir
        /\ \A p \in Added :
              \E i \in Visits : Produced(i) /\ p \in Prefixes(visited[i].out)

C3_Witness ==
    /\ Separate
    /\ genResult = "ok"
    /\ \E i \in Visits : visited[i].act = "mkdir" /\ visited[i].rel # <<".">>
    /\ \E i \in Visits :
          /\ visited[i].act = "file"
          /\ visited[i].out # visited[i].out1

\* C4: whenever processFile attempts the write of a file, the parent
\* directory of the path it passes to os.WriteFile exists.  Stated for the
\* runs whose output root lies apart from the input root and whose prompts
\* were all answered, where it already fails.
C4_ParentExistsAtWrite ==
    \A i \in Visits :
        Separate /\ visited[i].act = "file" /\ visited[i].res \in {"ok", "write"}
            => visited[i].parentOK

\* C5: when the source is a URL and the clone succeeded, the walk starts
\* at the cloned directory and its first call does not fail.
C5_RemoteTemplateIsWalked ==
    HasPrefixHttps(inputDir) =>
        /\ (pc = "walk" /\ visited = <<>>) => PathOf(stack[1][1]) = PathOf(repoName)
        /\ (visited # <<>> /\ visited[1].fault = "none") => visited[1].res = "ok"

FileFailed(i) == visited[i].act = "file" /\ visited[i].res # "ok"
\* The content the output at path p holds after the first n calls: that of
\* the last of them that wrote p.
LastWriter(p, n) ==
    CHOOSE j \in 1..n :
        /\ Produced(j) /\ visited[j].act = "file" /\ visited[j].out = p
        /\ \A k \in (j + 1)..n :
              ~(Produced(k) /\ visited[k].act = "file" /\ visited[k].out = p)

RefsMissing(content) ==
    \E k \in 1..Len(content) :
        /\ IsAction(content[k])
        /\ ActionTable[content[k]].kind = "field"
        /\ ActionTable[content[k]].chain[2] \notin DOMAIN data

\* C7: a file whose content refers to a variable absent from the context
\* fails to render with an execution error, nothing is written for it and
\* the run ends.  Stated for the runs whose output root lies apart from the
\* input root and whose prompts were all answered, where it already fails.
C7_MissingVariableFails ==
    \A i \in Visits :
        ( /\ Separate
          /\ visited[i].act = "file"
          /\ visited[i].res # "read"
          /\ RefsMissing(visited[i].content) )
        => ( /\ visited[i].res = "exec"
             /\ visited[i].out = <<>>
             /\ pc = "exit" )

\* C8: an entry whose path fails to render does not end the walk (no fault
\* of the operating system being injected and its content rendering): its
\* output is made at the literal relative path under the output root.
\* Stated for the runs whose output root lies apart from the input root and
\* whose prompts were all answered, where it already fails.
C8_PathErrorNeverAborts ==
    \A i \in Visits :
        ( /\ Separate
          /\ visited[i].act \in {"mkdir", "file"}
          /\ visited[i].pathErr
          /\ visited[i].fault = "none"
          /\ visited[i].res \notin {"parse", "exec"} )
        => ( /\ visited[i].res = "ok"
             /\ visited[i].out = PathOf(outputDir \o <<Slash>> \o visited[i].rel) )

\* C9: scripts are started only after generateFiles returned success, in
\* the order of the glob of the output's post_gen directory, and none is
\* started after one that failed.
C9_ScriptsInOrderUntilFailure ==
    /\ pc = "hooks" => scripts = Glob(fs, Join(outputDir, <<postGenDirName>>))
    /\ scriptsRun # <<>> => genResult = "ok" /\ doneMsg
    /\ Len(scriptsRun) <= Len(scripts)
    /\ \A i \in 1..Len(scriptsRun) :
          /\ scriptsRun[i].file = scripts[i]
          /\ i < Len(scriptsRun) => scriptsRun[i].ok

C9_Witness ==
    /\ pc = "exit"
    /\ Len(scripts) = 2
    /\ Len(scriptsRun) = 1
    /\ ~scriptsRun[1].ok

\* C10: for a local source the output root and the input root are disjoint
\* and nothing inside the input tree is created or changed.
C10_OutputDisjointFromInput ==
    (GenStarted /\ genResult # "err" /\ ~HasPrefixHttps(inputDir)) =>
        /\ Disjoint(OutRoot, InRoot)
        /\ \A p \in DOMAIN fs \cup DOMAIN fsGen :
              IsUnder(p, InRoot) =>
                  /\ p \in DOMAIN fs
                  /\ p \in DOMAIN fsGen
                  /\ fs[p] = fsGen[p]

====
